---- MODULE Spec2Model ----
(***************************************************************************)
(* Session acquisition and connection lifecycle of src/main.js.            *)
(*                                                                         *)
(* The program is single-threaded JavaScript: every action below is one    *)
(* run-to-completion slice of the event loop, from a callback's entry (or   *)
(* the resumption of an await) to its next await or its return.            *)
(*                                                                         *)
(* The messaging library, the session manager and the file system are the  *)
(* environment.  A handle made by makeWASocket goes connecting -> open ->   *)
(* closed, reports its close once and emits connection and message events   *)
(* only before that; its creds.update listener stays registered, so the     *)
(* handle sock names may still report a credential update once closed.     *)
(* What the manager answers, whether a load or a write fails, and the       *)
(* order in which timers and promises settle are nondeterministic.          *)
(***************************************************************************)
EXTENDS Integers, Sequences, FiniteSets, TLC

VARIABLES booted, cfg, dirExists, files, isFirstConnect, sock, conn,
          timers, runs, tasks, out, notif, lastEv

vars == <<booted, cfg, dirExists, files, isFirstConnect, sock, conn,
          timers, runs, tasks, out, notif, lastEv>>

(* ------------------------------ bounds --------------------------------- *)
MaxHandles == 2      \* makeWASocket calls explored
MaxFails   == 2      \* consecutive failed fetches explored per getAuthState
MaxTasks   == 1      \* message handlers suspended at an await at one time

(* ---------------------------- configuration ---------------------------- *)
PREFIX == "!"
RECONNECT_INTERVAL == "RECONNECT_INTERVAL"
SESSION_RETRY_INTERVAL == "SESSION_RETRY_INTERVAL"
RESTART_DELAY == "3000"

(* DisconnectReason of the library, as compared in the close branch *)
loggedOut == 401
restartRequired == 515
NoStatus == 0        \* lastDisconnect?.error?.output?.statusCode is undefined
StatusCodes == {loggedOut, restartRequired, 428, NoStatus}

Handles == 1..MaxHandles

(* --------------------------- credential store -------------------------- *)
CREDS == "creds.json"
NoFiles == [n \in {} |-> ""]

\* fs.existsSync(path.join(AUTH_DIR, 'creds.json'))
hasLocalSession(d, f) == d /\ CREDS \in DOMAIN f

\* one fs.writeFileSync(path.join(AUTH_DIR, filename), content)
WriteFile(f, name, content) ==
    [n \in DOMAIN f \cup {name} |-> IF n = name THEN content ELSE f[n]]

\* the loop of saveSessionLocally over Object.entries(files): the write of
\* entry number failAt throws (0: none does), which leaves the loop
RECURSIVE WriteEntries(_, _, _, _)
WriteEntries(f, entries, i, failAt) ==
    IF i > Len(entries) \/ i = failAt THEN f
    ELSE WriteEntries(WriteFile(f, entries[i][1], entries[i][2]), entries, i + 1, failAt)

\* Object.entries(files) of what the manager sent as data.files
Entries(v) ==
    CASE v.kind = "map"    -> v.val
      [] v.kind = "string" -> [i \in 1..Len(v.val) |-> <<ToString(i - 1), v.val[i]>>]
      [] OTHER             -> <<>>

\* saveSessionLocally(files): [dir, files] afterwards; mkdirFails is
\* fs.mkdirSync throwing, caught by the same try
saveSessionFresh(d, f, v, mkdirFails, failAt) ==
    IF ~d /\ mkdirFails THEN [dir |-> d, files |-> f]
    ELSE [dir |-> TRUE, files |-> WriteEntries(NoFiles, Entries(v), 1, failAt)]

saveSessionLocally(d, f, v, mkdirFails, failAt) ==
    IF ~d /\ mkdirFails THEN [dir |-> d, files |-> f]
    ELSE [dir |-> TRUE, files |-> WriteEntries(f, Entries(v), 1, failAt)]

\* fs.rmSync(AUTH_DIR, {recursive: true, force: true}) under fs.existsSync
WipeNone(d, f) == [dir |-> d, files |-> f]
WipeKeys(d, f) == [dir |-> d, files |-> [n \in DOMAIN f \cap {CREDS} |-> f[n]]]
Wipe(d, f) == [dir |-> FALSE, files |-> NoFiles]

(* ------------------------- what the manager sends ---------------------- *)
\* a rejected request or a body that carries no files: fetchSessionFromManager
\* returns null (catch) or undefined/null (data.files)
FetchFailures == {"network", "http500", "badjson", "nofiles"}

BundleFull  == [name |-> "full", kind |-> "map", val |-> <<<<CREDS, "a">>, <<"key.json", "b">>>>]
BundleKeys  == [name |-> "keys", kind |-> "map", val |-> <<<<"key.json", "b">>>>]
BundleEmpty == [name |-> "empty", kind |-> "map", val |-> <<>>]
FilesString == [name |-> "string", kind |-> "string", val |-> <<"x">>]
FilesNumber == [name |-> "number", kind |-> "number", val |-> <<>>]
Truthy == {BundleFull, BundleKeys, BundleEmpty, FilesString, FilesNumber}

(* ------------------------------- startBot ------------------------------ *)
\* the last callback run: which one, for which handle, its input (arg, code:
\* the status code of a close, fail: the write that threw in a save), and
\* log, what the process-level handlers did with an error it let escape
Ev(kind, h, arg) == [ev |-> kind, h |-> h, arg |-> arg, code |-> 0, fail |-> 0, log |-> ""]

\* process.on('unhandledRejection', ...): the rejection of an async callback
\* nobody awaits is logged and the process goes on
OnUnhandledRejectionDefault == "crash"
OnUnhandledRejection == "logged"
Running == lastEv.log # "crash"
NoRun == [pc |-> "none", cause |-> "none", hadLocal |-> FALSE, fetches |-> 0,
          waits |-> 0, fails |-> 0, saved |-> 0, loaded |-> 0]

\* startBot() up to its first await: getAuthState() checks hasLocalSession()
\* and either starts the local load or issues the first fetch
NewRunAlwaysFetch(cause, d, f) ==
    [NoRun EXCEPT !.pc = "fetching", !.cause = cause, !.fetches = 1,
                  !.hadLocal = hasLocalSession(d, f)]
NewRun(cause, d, f) ==
    [NoRun EXCEPT !.cause = cause,
                  !.hadLocal = hasLocalSession(d, f),
                  !.pc = IF hasLocalSession(d, f) THEN "loadLocal" ELSE "fetching",
                  !.fetches = IF hasLocalSession(d, f) THEN 0 ELSE 1]

Remove(s, i) == [j \in 1..(Len(s) - 1) |-> IF j < i THEN s[j] ELSE s[j + 1]]

TypeOK ==
    /\ booted \in BOOLEAN
    /\ dirExists \in BOOLEAN
    /\ isFirstConnect \in BOOLEAN
    /\ sock \in 0..MaxHandles
    /\ conn \in [Handles -> {"none", "connecting", "open", "closed"}]
    /\ notif \in Nat

Init ==
    /\ booted = FALSE
    /\ cfg \in [AUTO_READ : BOOLEAN, AUTO_TYPING : BOOLEAN]
    /\ \E f \in {NoFiles, WriteEntries(NoFiles, BundleFull.val, 1, 0)} :
          /\ files = f
          /\ dirExists = (f # NoFiles)
    /\ isFirstConnect = TRUE
    /\ sock = 0
    /\ conn = [h \in Handles |-> "none"]
    /\ timers = <<>>
    /\ runs = <<>>
    /\ tasks = <<>>
    /\ out = <<>>
    /\ notif = 0
    /\ lastEv = Ev("init", 0, "")

\* line 187: the top-level startBot()
Main ==
    /\ ~booted
    /\ booted' = TRUE
    /\ runs' = Append(runs, NewRun("initial", dirExists, files))
    /\ out' = <<>>
    /\ lastEv' = Ev("main", 0, "")
    /\ UNCHANGED <<cfg, dirExists, files, isFirstConnect, sock, conn, timers,
                   tasks, notif>>

\* a setTimeout(() => startBot(), ...) of the close branch fires
TimerFire(j) ==
    /\ j \in 1..Len(timers)
    /\ timers' = Remove(timers, j)
    /\ runs' = Append(runs, NewRun(timers[j].cause, dirExists, files))
    /\ out' = <<>>
    /\ lastEv' = Ev("startBot", 0, timers[j].cause)
    /\ UNCHANGED <<booted, cfg, dirExists, files, isFirstConnect, sock, conn,
                   tasks, notif>>

(* ----------------------------- getAuthState ---------------------------- *)
FetchFailNoWait(i, k) ==
    /\ i \in 1..Len(runs)
    /\ runs[i].pc = "fetching"
    /\ k \in FetchFailures
    /\ runs[i].fails < MaxFails
    /\ runs' = [runs EXCEPT ![i].fails = @ + 1, ![i].fetches = @ + 1]
    /\ out' = <<>>
    /\ lastEv' = Ev("fetchFail", 0, k)
    /\ UNCHANGED <<booted, cfg, dirExists, files, isFirstConnect, sock, conn,
                   timers, tasks, notif>>

FetchFailThrows(i, k) ==
    /\ i \in 1..Len(runs)
    /\ runs[i].pc = "fetching"
    /\ k \in FetchFailures
    /\ runs[i].fails < MaxFails
    /\ runs' = IF k = "badjson" THEN Remove(runs, i)
               ELSE [runs EXCEPT ![i].pc = "waiting", ![i].fails = @ + 1,
                                 ![i].waits = @ + 1]
    /\ out' = <<>>
    /\ lastEv' = Ev("fetchFail", 0, k)
    /\ UNCHANGED <<booted, cfg, dirExists, files, isFirstConnect, sock, conn,
                   timers, tasks, notif>>

\* await fetchSessionFromManager() settles with nothing usable: the loop
\* body logs and starts the retry wait
FetchFail(i, k) ==
    /\ i \in 1..Len(runs)
    /\ runs[i].pc = "fetching"
    /\ k \in FetchFailures
    /\ runs[i].fails < MaxFails
    /\ runs' = [runs EXCEPT ![i].pc = "waiting", ![i].fails = @ + 1,
                            ![i].waits = @ + 1]
    /\ out' = <<>>
    /\ lastEv' = Ev("fetchFail", 0, k)
    /\ UNCHANGED <<booted, cfg, dirExists, files, isFirstConnect, sock, conn,
                   timers, tasks, notif>>

\* the retry wait of SESSION_RETRY_INTERVAL is over: fetch again
RetryFire(i) ==
    /\ i \in 1..Len(runs)
    /\ runs[i].pc = "waiting"
    /\ runs' = [runs EXCEPT ![i].pc = "fetching", ![i].fetches = @ + 1]
    /\ out' = <<>>
    /\ lastEv' = Ev("retry", 0, SESSION_RETRY_INTERVAL)
    /\ UNCHANGED <<booted, cfg, dirExists, files, isFirstConnect, sock, conn,
                   timers, tasks, notif>>

\* await fetchSessionFromManager() settles with a truthy data.files: the
\* loop ends, saveSessionLocally(files) runs and the load is started
FetchOk(i, v, mkdirFails, failAt) ==
    /\ i \in 1..Len(runs)
    /\ runs[i].pc = "fetching"
    /\ v \in Truthy
    /\ failAt \in 0..Len(Entries(v))
    /\ mkdirFails => (~dirExists /\ failAt = 0)
    /\ LET fs == saveSessionLocally(dirExists, files, v, mkdirFails, failAt)
       IN  /\ dirExists' = fs.dir
           /\ files' = fs.files
    /\ runs' = [runs EXCEPT ![i].pc = "loading", ![i].saved = @ + 1]
    /\ out' = <<>>
    /\ lastEv' = [Ev("fetchOk", 0, v.name) EXCEPT
                      !.fail = IF mkdirFails THEN -1 ELSE failAt,
                      !.log = IF mkdirFails \/ failAt > 0 THEN "logged" ELSE ""]
    /\ UNCHANGED <<booted, cfg, isFirstConnect, sock, conn, timers, tasks,
                   notif>>

\* await useMultiFileAuthState(AUTH_DIR) resolves (it makes the directory
\* when it is missing); startBot goes on to fetchLatestBaileysVersion()
LoadOk(i) ==
    /\ i \in 1..Len(runs)
    /\ runs[i].pc \in {"loadLocal", "loading"}
    /\ dirExists' = TRUE
    /\ runs' = [runs EXCEPT ![i].pc = "version", ![i].loaded = @ + 1]
    /\ out' = <<>>
    /\ lastEv' = Ev("loadOk", 0, "")
    /\ UNCHANGED <<booted, cfg, files, isFirstConnect, sock, conn, timers,
                   tasks, notif>>

LoadThrowRetry(i) ==
    /\ i \in 1..Len(runs)
    /\ runs[i].pc \in {"loadLocal", "loading"}
    /\ runs' = IF runs[i].pc = "loading"
               THEN [runs EXCEPT ![i].pc = "fetching", ![i].fetches = @ + 1]
               ELSE Remove(runs, i)
    /\ out' = <<>>
    /\ lastEv' = [Ev("loadThrow", 0, runs[i].cause) EXCEPT !.log = OnUnhandledRejection]
    /\ UNCHANGED <<booted, cfg, dirExists, files, isFirstConnect, sock, conn,
                   timers, tasks, notif>>

\* await useMultiFileAuthState(AUTH_DIR) rejects: getAuthState and startBot
\* reject, the unhandledRejection handler logs
LoadThrow(i) ==
    /\ i \in 1..Len(runs)
    /\ runs[i].pc \in {"loadLocal", "loading"}
    /\ runs' = Remove(runs, i)
    /\ out' = <<>>
    /\ lastEv' = [Ev("loadThrow", 0, runs[i].cause) EXCEPT !.log = OnUnhandledRejection]
    /\ UNCHANGED <<booted, cfg, dirExists, files, isFirstConnect, sock, conn,
                   timers, tasks, notif>>

\* await fetchLatestBaileysVersion() resolves: sock = makeWASocket(...) and
\* the three handlers are registered on it
MakeSocket(i) ==
    /\ i \in 1..Len(runs)
    /\ runs[i].pc = "version"
    /\ sock < MaxHandles
    /\ sock' = sock + 1
    /\ conn' = [conn EXCEPT ![sock + 1] = "connecting"]
    /\ runs' = Remove(runs, i)
    /\ out' = <<>>
    /\ lastEv' = Ev("makeWASocket", sock + 1, runs[i].cause)
    /\ UNCHANGED <<booted, cfg, dirExists, files, isFirstConnect, timers,
                   tasks, notif>>

(* ------------------------- connection.update --------------------------- *)
Live(h) == conn[h] \in {"connecting", "open"}
Op(kind, by) == [op |-> kind, via |-> sock, by |-> by]

\* connection === 'open'
OpenFlagKept(flag) == flag
OpenFlag(flag) == FALSE
ConnOpen(h) ==
    /\ h \in Handles
    /\ conn[h] = "connecting"
    /\ conn' = [conn EXCEPT ![h] = "open"]
    /\ IF isFirstConnect
       THEN /\ isFirstConnect' = OpenFlag(isFirstConnect)
            /\ out' = <<Op("notify", h)>>
            /\ notif' = notif + 1
       ELSE /\ out' = <<>>
            /\ UNCHANGED <<isFirstConnect, notif>>
    /\ lastEv' = Ev("open", h, "")
    /\ UNCHANGED <<booted, cfg, dirExists, files, sock, timers, runs, tasks>>

\* the awaited sock.sendMessage of the open branch rejects: the handler's
\* promise rejects with it and the unhandledRejection handler logs
NotifyReject(h) ==
    /\ h \in Handles
    /\ lastEv.ev = "open" /\ lastEv.h = h /\ out # <<>>
    /\ out' = <<>>
    /\ lastEv' = [Ev("reject", h, "notify") EXCEPT !.log = OnUnhandledRejection]
    /\ UNCHANGED <<booted, cfg, dirExists, files, isFirstConnect, sock, conn,
                   timers, runs, tasks, notif>>

\* the branch the close handler takes for a status code
ClassifyLoose(code) ==
    IF code = loggedOut \/ code = NoStatus THEN "loggedOut"
    ELSE IF code = restartRequired THEN "restartRequired"
    ELSE "other"

Classify(code) ==
    IF code = loggedOut THEN "loggedOut"
    ELSE IF code = restartRequired THEN "restartRequired"
    ELSE "other"

\* the delay of the setTimeout of each branch
DelayAlwaysShort(branch) == RESTART_DELAY
Delay(branch) == IF branch = "restartRequired" THEN RESTART_DELAY ELSE RECONNECT_INTERVAL

Timer(branch) == [delay |-> Delay(branch), cause |-> branch]

\* the setTimeout(() => startBot(), ...) that ends each branch
ScheduleNotOther(tm, branch) == IF branch = "other" THEN tm ELSE Append(tm, Timer(branch))
Schedule(tm, branch) == Append(tm, Timer(branch))

ConnCloseEager(h, code) ==
    /\ h \in Handles
    /\ Live(h)
    /\ h < MaxHandles
    /\ code \in StatusCodes
    /\ conn' = [conn EXCEPT ![h] = "closed"]
    /\ IF Classify(code) = "loggedOut"
       THEN LET fs == Wipe(dirExists, files)
            IN  /\ runs' = Append(runs, NewRun("loggedOut", dirExists, files))
                /\ dirExists' = fs.dir
                /\ files' = fs.files
                /\ isFirstConnect' = TRUE
                /\ notif' = 0
                /\ UNCHANGED timers
       ELSE /\ timers' = Schedule(timers, Classify(code))
            /\ UNCHANGED <<dirExists, files, isFirstConnect, notif, runs>>
    /\ out' = <<>>
    /\ lastEv' = [Ev("close", h, Classify(code)) EXCEPT !.code = code]
    /\ UNCHANGED <<booted, cfg, sock, tasks>>

\* connection === 'close'
ConnClose(h, code) ==
    /\ h \in Handles
    /\ Live(h)
    /\ h < MaxHandles
    /\ code \in StatusCodes
    /\ conn' = [conn EXCEPT ![h] = "closed"]
    /\ IF Classify(code) = "loggedOut"
       THEN LET fs == Wipe(dirExists, files)
            IN  /\ dirExists' = fs.dir
                /\ files' = fs.files
                /\ isFirstConnect' = TRUE
                /\ notif' = 0
       ELSE UNCHANGED <<dirExists, files, isFirstConnect, notif>>
    /\ timers' = Schedule(timers, Classify(code))
    /\ out' = <<>>
    /\ lastEv' = [Ev("close", h, Classify(code)) EXCEPT !.code = code]
    /\ UNCHANGED <<booted, cfg, sock, runs, tasks>>

\* an update that is neither open nor close (connecting, qr, isOnline, ...)
ConnOther(h) ==
    /\ h \in Handles
    /\ Live(h)
    /\ out' = <<>>
    /\ lastEv' = Ev("update", h, "")
    /\ UNCHANGED <<booted, cfg, dirExists, files, isFirstConnect, sock, conn,
                   timers, runs, tasks, notif>>

(* ----------------------------- creds.update ---------------------------- *)
\* saveCreds of useMultiFileAuthState: writes the identity file into the
\* directory the state was loaded from; the write fails when it is gone
saveCredsDropped(d, f) == [dir |-> d, files |-> f]
saveCreds(d, f) ==
    IF d THEN [dir |-> d, files |-> WriteFile(f, CREDS, "rot")]
    ELSE [dir |-> d, files |-> f]

\* sock.ev.on('creds.update', saveCreds): no test of the connection state
CredsUpdate(h) ==
    /\ h \in Handles
    /\ conn[h] # "none"
    /\ conn[h] = "closed" => h = sock
    /\ LET fs == saveCreds(dirExists, files)
       IN  /\ dirExists' = fs.dir
           /\ files' = fs.files
    /\ out' = <<>>
    /\ lastEv' = [Ev("creds", h, "") EXCEPT
                      !.log = IF dirExists THEN "" ELSE OnUnhandledRejection]
    /\ UNCHANGED <<booted, cfg, isFirstConnect, sock, conn, timers, runs,
                   tasks, notif>>

(* ---------------------------- messages.upsert -------------------------- *)
Msg(hasMessage, fromMe, body) == [message |-> hasMessage, fromMe |-> fromMe, body |-> body]
NoMsg == Msg(FALSE, FALSE, <<>>)
Msgs == { NoMsg, Msg(TRUE, TRUE, <<PREFIX, "ping">>), Msg(TRUE, FALSE, <<>>),
          Msg(TRUE, FALSE, <<"hi">>), Msg(TRUE, FALSE, <<PREFIX, "PING">>),
          Msg(TRUE, FALSE, <<PREFIX, "alive">>), Msg(TRUE, FALSE, <<PREFIX, "foo">>) }

\* body.startsWith(PREFIX)
StartsWithPrefixOrEmpty(body) == Len(body) = 0 \/ body[1] = PREFIX
StartsWithPrefix(body) == Len(body) > 0 /\ body[1] = PREFIX

\* String.prototype.toLowerCase on the command words of Msgs
ToLowerCase(w) == IF w = "PING" THEN "ping" ELSE w

\* body.slice(PREFIX.length).trim().split(/\s+/).shift().toLowerCase()
Command(body) == IF Len(body) > 1 THEN ToLowerCase(body[2]) ELSE ""

Paused(op, m, pt) == [op |-> op, msg |-> m, pt |-> pt]
Done == Paused("none", NoMsg, "end")

\* the loop body for message m from point pt to its next await (op is the
\* awaited operation, pt where it resumes) or to the end of the body (Done)
RECURSIVE Process(_, _, _)
Process(m, pt, c) ==
    CASE pt = "msg" ->
           IF ~m.message \/ m.fromMe THEN Done
           ELSE IF c.AUTO_READ THEN Paused("read", m, "typing")
           ELSE Process(m, "typing", c)
      [] pt = "typing" ->
           IF c.AUTO_TYPING /\ StartsWithPrefix(m.body)
           THEN Paused("typing", m, "dispatch")
           ELSE Process(m, "dispatch", c)
      [] pt = "dispatch" ->
           IF ~StartsWithPrefix(m.body) THEN Done
           ELSE IF Command(m.body) = "ping" THEN Paused("pong", NoMsg, "next")
           ELSE IF Command(m.body) = "alive" THEN Paused("alive", NoMsg, "next")
           ELSE Done
      [] OTHER -> Done

\* one slice of the for loop: the rest of message m from pt, then, if that
\* reaches no await, the following message nxt.  The messages of the array
\* that reach no await have no effect, so nxt stands for the first one after
\* m that does, or, being one that does not, for the end of the array
Slice(m, pt, nxt, c) ==
    LET r == Process(m, pt, c) IN
    IF r.op # "none" THEN r ELSE Process(nxt, "msg", c)

MessagesUpsert(h, type, m) ==
    /\ h \in Handles
    /\ conn[h] = "open"
    /\ type \in {"notify", "append"}
    /\ m \in Msgs
    /\ type # "notify" => m = NoMsg
    /\ Len(tasks) < MaxTasks
    /\ LET r == IF type # "notify" THEN Done ELSE Process(m, "msg", cfg)
       IN  IF r.op = "none"
           THEN /\ out' = <<>>
                /\ UNCHANGED tasks
           ELSE /\ out' = <<Op(r.op, h)>>
                /\ tasks' = Append(tasks, [by |-> h, msg |-> r.msg, pt |-> r.pt])
    /\ lastEv' = Ev("messages", h, type)
    /\ UNCHANGED <<booted, cfg, dirExists, files, isFirstConnect, sock, conn,
                   timers, runs, notif>>

\* the awaited operation of a suspended message handler resolves and the
\* handler goes on
TaskResume(i, nxt) ==
    /\ i \in 1..Len(tasks)
    /\ nxt \in Msgs
    /\ Process(tasks[i].msg, tasks[i].pt, cfg).op # "none" => nxt = NoMsg
    /\ LET t == tasks[i]
           r == Slice(t.msg, t.pt, nxt, cfg)
       IN  /\ IF r.op = "none"
              THEN /\ out' = <<>>
                   /\ tasks' = Remove(tasks, i)
              ELSE /\ out' = <<Op(r.op, t.by)>>
                   /\ tasks' = [tasks EXCEPT ![i] = [by |-> t.by, msg |-> r.msg, pt |-> r.pt]]
           /\ lastEv' = Ev("resume", t.by, "")
    /\ UNCHANGED <<booted, cfg, dirExists, files, isFirstConnect, sock, conn,
                   timers, runs, notif>>

\* the awaited operation of a suspended message handler rejects: the handler
\* ends there, its promise rejects and the unhandledRejection handler logs
TaskReject(i) ==
    /\ i \in 1..Len(tasks)
    /\ tasks' = Remove(tasks, i)
    /\ out' = <<>>
    /\ lastEv' = [Ev("reject", tasks[i].by, tasks[i].pt) EXCEPT !.log = OnUnhandledRejection]
    /\ UNCHANGED <<booted, cfg, dirExists, files, isFirstConnect, sock, conn,
                   timers, runs, notif>>

\* the session and connection lifecycle
CoreNext ==
    \/ Main
    \/ \E j \in 1..Len(timers) : TimerFire(j)
    \/ \E i \in 1..Len(runs), k \in FetchFailures : FetchFail(i, k)
    \/ \E i \in 1..Len(runs) : RetryFire(i)
    \/ \E i \in 1..Len(runs), v \in Truthy, mf \in BOOLEAN, fa \in 0..2 : FetchOk(i, v, mf, fa)
    \/ \E i \in 1..Len(runs) : LoadOk(i)
    \/ \E i \in 1..Len(runs) : LoadThrow(i)
    \/ \E i \in 1..Len(runs) : MakeSocket(i)
    \/ \E h \in Handles : ConnOpen(h)
    \/ \E h \in Handles : NotifyReject(h)
    \/ \E h \in Handles, code \in StatusCodes : ConnClose(h, code)
    \/ \E h \in Handles : ConnOther(h)
    \/ \E h \in Handles : CredsUpdate(h)

\* the message handlers
MsgNext ==
    \/ \E h \in Handles, type \in {"notify", "append"}, m \in Msgs : MessagesUpsert(h, type, m)
    \/ \E i \in 1..Len(tasks), nxt \in Msgs : TaskResume(i, nxt)
    \/ \E i \in 1..Len(tasks) : TaskReject(i)

Next == CoreNext \/ MsgNext

\* the whole program
Spec == Init /\ [][Next]_vars

\* the lifecycle alone: the message handlers write none of its variables
CoreSpec == Init /\ [][CoreNext]_vars

\* timers fire and awaited promises settle
Fairness ==
    /\ WF_vars(\E j \in 1..Len(timers) : TimerFire(j))
    /\ WF_vars(\E i \in 1..Len(runs) : RetryFire(i))
    /\ WF_vars(\E i \in 1..Len(runs), k \in FetchFailures, v \in Truthy, mf \in BOOLEAN, fa \in 0..2 :
                   FetchFail(i, k) \/ FetchOk(i, v, mf, fa))
    /\ WF_vars(\E i \in 1..Len(runs) : LoadOk(i) \/ LoadThrow(i))
    /\ WF_vars(\E i \in 1..Len(runs) : MakeSocket(i))

LiveSpec == Init /\ [][CoreNext]_vars /\ Fairness

(* =============================== claims =============================== *)
HandlerEvents == {"open", "close", "update", "creds", "messages", "resume"}
Active == {h \in Handles : Live(h)}
Closing(h) == Live(h) /\ conn'[h] = "closed"

\* C1: at most one handle is active, and an event handled on behalf of a
\* handle that a later startBot has superseded has no effect: no restart
\* scheduled, no credentials touched, no flag changed, no outbound operation.
C1_StaleHandlesInert ==
    /\ [](Cardinality(Active) <= 1)
    /\ [][(lastEv'.ev \in HandlerEvents /\ lastEv'.h # sock)
            => (out' = <<>> /\ UNCHANGED <<timers, dirExists, files, isFirstConnect>>)]_vars

\* C2: the startup notification is sent at most once between two wipes: the
\* flag is set exactly while the current epoch has sent none, so an open
\* that finds it cleared sends nothing and the first open after a wipe sends.
C2_NotifyOncePerEpoch ==
    /\ notif \in {0, 1}
    /\ isFirstConnect <=> (notif = 0)
    /\ lastEv.ev = "open" => notif = 1
    /\ \A k \in 1..Len(out) : out[k].op = "notify" => lastEv.ev = "open"

C2_Witness == lastEv.ev = "open" /\ lastEv.h = 2 /\ out = <<>> /\ notif = 1

\* C3: the handler of a close with the logged-out code leaves the session
\* directory absent, isFirstConnect true and exactly one more pending
\* startBot timer, of delay RECONNECT_INTERVAL.
C3_LoggedOutClose ==
    [][\A h \in Handles : (Closing(h) /\ lastEv'.code = loggedOut)
          => /\ ~dirExists' /\ files' = NoFiles
             /\ isFirstConnect'
             /\ Len(timers') = Len(timers) + 1
             /\ timers'[Len(timers')].delay = RECONNECT_INTERVAL
             /\ \A j \in 1..Len(timers) : timers'[j] = timers[j]
             /\ runs' = runs]_vars

C3_Witness == lastEv.ev = "close" /\ lastEv.code = loggedOut /\ ~dirExists /\ Len(timers) = 1

\* C4: the handler of a close with the restart-required code leaves the
\* store and isFirstConnect alone and schedules, after the 3000 ms delay, a
\* reopen that does no remote session fetch.
C4_RestartRequiredReopen ==
    /\ [][\A h \in Handles : (Closing(h) /\ lastEv'.code = restartRequired)
            => /\ UNCHANGED <<dirExists, files, isFirstConnect>>
               /\ Len(timers') = Len(timers) + 1
               /\ timers'[Len(timers')].delay = RESTART_DELAY]_vars
    /\ [](\A i \in 1..Len(runs) : runs[i].cause = "restartRequired" => runs[i].fetches = 0)

\* C5: a getAuthState that finds the local session loads it and never
\* fetches from the manager, in the first startBot and in every later one.
C5_LocalFirst ==
    \A i \in 1..Len(runs) :
        runs[i].hadLocal => /\ runs[i].pc \in {"loadLocal", "version"}
                            /\ runs[i].fetches = 0
                            /\ runs[i].saved = 0

C5_Witness ==
    \E i \in 1..Len(runs) : runs[i].hadLocal /\ runs[i].cause = "other" /\ runs[i].pc = "version"

\* C6: without a local session, after N failed fetches the run has made N
\* waits and N + 1 fetches, each wait between two fetches, and it saves once
\* and then loads once only after the fetch that succeeded.
C6_FetchCounts ==
    \A i \in 1..Len(runs) :
        LET r == runs[i] IN
        ~r.hadLocal =>
            /\ r.waits = r.fails
            /\ r.fetches = IF r.pc = "waiting" THEN r.fails ELSE r.fails + 1
            /\ r.saved = IF r.pc \in {"loading", "version"} THEN 1 ELSE 0
            /\ r.loaded = IF r.pc = "version" THEN 1 ELSE 0

C6_Witness ==
    \E i \in 1..Len(runs) :
        /\ runs[i].pc = "version" /\ runs[i].fails = 2 /\ runs[i].fetches = 3
        /\ runs[i].waits = 2 /\ runs[i].saved = 1 /\ runs[i].loaded = 1

\* C7: a wipe leaves no local session, and the startBot it schedules finds
\* none and makes exactly one fetch before its first retry wait is over.
C7_FetchAfterWipe ==
    /\ (lastEv.ev = "close" /\ lastEv.code = loggedOut) => ~hasLocalSession(dirExists, files)
    /\ \A i \in 1..Len(runs) :
          runs[i].cause = "loggedOut" =>
              /\ ~runs[i].hadLocal
              /\ runs[i].fetches >= 1
              /\ (runs[i].waits = 0 \/ (runs[i].waits = 1 /\ runs[i].pc = "waiting"))
                    => runs[i].fetches = 1

C7_Witness ==
    /\ lastEv.ev = "startBot" /\ lastEv.arg = "loggedOut"
    /\ \E i \in 1..Len(runs) : runs[i].pc = "fetching" /\ runs[i].fetches = 1

\* C8: no startBot is resolving credentials when a wipe happens, and the
\* restart that a logged-out close schedules starts with the directory gone.
C8_WipeBeforeRestart ==
    /\ [][(\E h \in Handles : Closing(h) /\ lastEv'.code = loggedOut)
            => (runs = <<>> /\ runs' = <<>>)]_vars
    /\ [][(Len(runs') > Len(runs) /\ runs'[Len(runs')].cause = "loggedOut")
            => (~dirExists /\ files = NoFiles)]_vars

C8_Witness ==
    /\ lastEv.ev = "startBot" /\ lastEv.arg = "loggedOut" /\ ~dirExists
    /\ Len(runs) = 1

C10_FetchFailureRetries ==
    /\ [][\A i \in 1..Len(runs) :
            (runs[i].pc = "fetching" /\ lastEv'.ev = "fetchFail")
               => /\ Len(runs') = Len(runs)
                  /\ runs'[i].pc = "waiting"
                  /\ runs'[i].saved = 0
                  /\ UNCHANGED <<dirExists, files>>]_vars
    /\ [](\A i \in 1..Len(runs) :
            runs[i].pc = "waiting" => (runs[i].saved = 0 /\ ENABLED RetryFire(i)))

C10_Witness ==
    /\ lastEv.ev = "fetchFail" /\ lastEv.arg = "badjson"
    /\ \E i \in 1..Len(runs) : runs[i].pc = "waiting" /\ runs[i].fails = 2

\* C11: a load that fails after the fetched bundle was saved ends the
\* startBot that made it: the rejection is logged, the attempt fetches and
\* saves nothing more, and nothing is scheduled in its place.
C11_LoadFailurePropagates ==
    /\ [][\A i \in 1..Len(runs) :
            (runs[i].pc = "loading" /\ lastEv'.ev = "loadThrow")
               => /\ Len(runs') = Len(runs) - 1
                  /\ \A j \in 1..Len(runs') : runs'[j].pc # "fetching"
                  /\ lastEv'.log = "logged"
                  /\ UNCHANGED <<dirExists, files, timers, sock>>]_vars
    /\ [](\A i \in 1..Len(runs) : runs[i].saved <= 1 /\ runs[i].loaded <= 1)

C11_Witness ==
    /\ lastEv.ev = "loadThrow" /\ lastEv.arg = "loggedOut" /\ lastEv.log = "logged"
    /\ runs = <<>> /\ timers = <<>>

\* what the manager sent in the fetch that ended the retry loop
BundleOf(name) == CHOOSE v \in Truthy : v.name = name
Written(name, content) == name \in DOMAIN files /\ files[name] = content

\* C12: when the write of one file of the bundle throws in saveSessionLocally,
\* the failure is logged, every other file of the bundle is still written,
\* and the attempt goes on to the load.
C12_WriteFailureSkipsOneFile ==
    (lastEv.ev = "fetchOk" /\ lastEv.fail >= 1) =>
        LET entries == Entries(BundleOf(lastEv.arg))
        IN  /\ lastEv.log = "logged"
            /\ \E i \in 1..Len(runs) : runs[i].pc = "loading"
            /\ \A j \in 1..Len(entries) :
                  j # lastEv.fail => Written(entries[j][1], entries[j][2])

\* C13: a save that meets no failure leaves every file of the bundle in the
\* session directory under its name with its content, which the load that
\* follows finds; making the directory keeps what it already holds.
C13_SaveRoundTrip ==
    /\ [][(lastEv'.ev = "fetchOk" /\ lastEv'.fail = 0) =>
             LET entries == Entries(BundleOf(lastEv'.arg))
                 names == {entries[j][1] : j \in 1..Len(entries)}
             IN  /\ dirExists'
                 /\ \A j \in 1..Len(entries) :
                       entries[j][1] \in DOMAIN files' /\ files'[entries[j][1]] = entries[j][2]
                 /\ DOMAIN files' = DOMAIN files \cup names
                 /\ \A n \in DOMAIN files \ names : files'[n] = files[n]
                 /\ \E i \in 1..Len(runs') : runs'[i].pc = "loading"]_vars
    /\ [](\A i \in 1..Len(runs) : runs[i].pc = "loading" => ENABLED LoadOk(i))

C13_Witness ==
    /\ lastEv.ev = "fetchOk" /\ lastEv.arg = "full" /\ lastEv.fail = 0
    /\ DOMAIN files = {CREDS, "key.json", "0"}
    /\ files[CREDS] = "a" /\ files["key.json"] = "b" /\ files["0"] = "x"

\* C14: an error that escapes an asynchronous callback (a rejected startBot,
\* a rejected credential save, a handler whose sendMessage, readMessages or
\* sendPresenceUpdate rejected) is logged and the process keeps running.
C14_ErrorsLoggedNoCrash ==
    /\ Running
    /\ lastEv.ev \in {"loadThrow", "reject"} => lastEv.log = "logged"
    /\ (lastEv.ev = "creds" /\ ~dirExists) => lastEv.log = "logged"

C14_Witness ==
    /\ lastEv.ev = "reject" /\ lastEv.arg = "typing" /\ lastEv.log = "logged"
    /\ conn[lastEv.h] = "open" /\ ENABLED MessagesUpsert(lastEv.h, "notify", NoMsg)

\* C15: with AUTO_READ on, a notify message that is not the bot's own and
\* has no text body gets its read receipt, and nothing else is sent for it:
\* after the receipt the loop body ends without typing presence or reply.
NoBody == Msg(TRUE, FALSE, <<>>)

C15_NoBodyReadOnly ==
    /\ [](cfg.AUTO_READ =>
            /\ Process(NoBody, "msg", cfg) = Paused("read", NoBody, "typing")
            /\ \A i \in 1..Len(tasks) :
                  tasks[i].msg = NoBody =>
                     /\ tasks[i].pt = "typing"
                     /\ Process(NoBody, tasks[i].pt, cfg) = Done)
    /\ [][(/\ cfg.AUTO_READ
           /\ lastEv'.ev = "messages"
           /\ Len(tasks') > Len(tasks)
           /\ tasks'[Len(tasks')].msg = NoBody)
             => out' = <<Op("read", lastEv'.h)>>]_vars

C15_Witness ==
    /\ cfg.AUTO_READ /\ cfg.AUTO_TYPING
    /\ lastEv.ev = "messages" /\ lastEv.arg = "notify"
    /\ tasks # <<>> /\ tasks[Len(tasks)].msg = NoBody
    /\ out = <<Op("read", lastEv.h)>>

\* C16: the fetch loop ends, and the save and load follow, only for a fetch
\* that returned a set of files with at least one entry; a files map with no
\* entries keeps the loop going.
C16_EmptyBundleKeepsLooping ==
    (lastEv.ev = "fetchOk" /\ BundleOf(lastEv.arg).kind = "map")
        => Len(Entries(BundleOf(lastEv.arg))) > 0

\* C17: a body whose files field is no map of file names to contents (a
\* string, a number) counts as a failed fetch: nothing is written and the
\* fetch is retried after the retry interval.
C17_NonMapIsFetchFailure ==
    lastEv.ev = "fetchOk" => BundleOf(lastEv.arg).kind = "map"

\* a step in which some handle reports its close
CloseStep == \E h \in Handles : Closing(h)
LastTimer(tm) == tm[Len(tm)]

\* C18: what a close does is fixed by its status code alone (401, 515, or
\* anything else, a missing code included), whatever the flag and the store
\* hold; every close schedules one startBot and no other event schedules or
\* starts one.
C18_CloseClassification ==
    [][/\ CloseStep =>
            LET code == lastEv'.code
                branch == IF code = loggedOut THEN "loggedOut"
                          ELSE IF code = restartRequired THEN "restartRequired"
                          ELSE "other"
            IN  /\ lastEv'.ev = "close" /\ lastEv'.arg = branch
                /\ timers' = Append(timers, [delay |-> IF code = restartRequired
                                                       THEN RESTART_DELAY
                                                       ELSE RECONNECT_INTERVAL,
                                             cause |-> branch])
                /\ runs' = runs
                /\ IF code = loggedOut
                   THEN ~dirExists' /\ files' = NoFiles /\ isFirstConnect'
                   ELSE UNCHANGED <<dirExists, files, isFirstConnect>>
       /\ Len(timers') > Len(timers) => CloseStep
       /\ Len(runs') > Len(runs) => lastEv'.ev \in {"main", "startBot"}
       /\ lastEv'.ev \in {"open", "update", "creds", "messages", "resume", "reject"}
             => UNCHANGED <<timers, runs>>]_vars

C18_Witness ==
    /\ lastEv.ev = "close" /\ lastEv.code = NoStatus /\ lastEv.arg = "other"
    /\ isFirstConnect /\ hasLocalSession(dirExists, files)
    /\ Len(timers) = 1 /\ LastTimer(timers).delay = RECONNECT_INTERVAL

\* C19 as stated: outside the logged-out close, no close and no open,
\* credential-update or message event touches the store or sets the flag.
C19_StoreUntouchedOutsideLogout ==
    [][((CloseStep /\ lastEv'.code # loggedOut)
          \/ (~CloseStep /\ lastEv'.ev \in {"open", "creds", "messages", "resume"}))
           => /\ UNCHANGED <<dirExists, files>>
              /\ isFirstConnect' => isFirstConnect]_vars

\* C19: files leave the store only in the logged-out close. Every other
\* close and every open and message event leave the store as it is and do
\* not set isFirstConnect; a credential update rewrites creds.json only and
\* removes nothing; a generic close schedules its reopen after
\* RECONNECT_INTERVAL.
C19_RemovalOnlyByLogout ==
    [][/\ (\/ dirExists /\ ~dirExists'
           \/ DOMAIN files \ DOMAIN files' # {})
             => (CloseStep /\ lastEv'.code = loggedOut)
       /\ ((CloseStep /\ lastEv'.code # loggedOut)
             \/ (~CloseStep /\ lastEv'.ev \in {"open", "messages", "resume"}))
             => /\ UNCHANGED <<dirExists, files>>
                /\ isFirstConnect' => isFirstConnect
       /\ (~CloseStep /\ lastEv'.ev = "creds")
             => /\ UNCHANGED dirExists
                /\ DOMAIN files' \in {DOMAIN files, DOMAIN files \cup {CREDS}}
                /\ \A n \in DOMAIN files \ {CREDS} : files'[n] = files[n]
                /\ isFirstConnect' => isFirstConnect
       /\ (CloseStep /\ lastEv'.code \notin {loggedOut, restartRequired})
             => LastTimer(timers').delay = RECONNECT_INTERVAL]_vars

C19_Witness ==
    /\ lastEv.ev = "close" /\ lastEv.code = 428
    /\ dirExists /\ CREDS \in DOMAIN files /\ files[CREDS] = "rot"
    /\ ~isFirstConnect
    /\ timers # <<>> /\ LastTimer(timers).delay = RECONNECT_INTERVAL

\* C20: a credential update reported by the handle in use is saved in the
\* very step that reports it, whether the handle is connecting, open or
\* closed, and with no change of connection state; a rotation saved before
\* a close is still in the store after it unless the close is a logout.
C20_CredsSavedImmediately ==
    /\ [][lastEv'.ev = "creds" =>
             /\ dirExists => (dirExists' /\ CREDS \in DOMAIN files' /\ files'[CREDS] = "rot")
             /\ UNCHANGED <<conn, sock, timers, runs>>]_vars
    /\ [][(CloseStep /\ lastEv'.code # loggedOut /\ hasLocalSession(dirExists, files))
             => files'[CREDS] = files[CREDS]]_vars
    /\ [](sock \in Handles => ENABLED CredsUpdate(sock))

C20_Witness ==
    /\ lastEv.ev = "creds" /\ lastEv.h = sock /\ conn[sock] = "closed"
    /\ lastEv.code = 0 /\ dirExists /\ files[CREDS] = "rot"
    /\ timers # <<>> /\ LastTimer(timers).cause = "other"
====
